---- MODULE Spec2Model ----
(***************************************************************************)
(* Model of the alignas crate (src/src/lib.rs): the #[repr(C)] union       *)
(* AlignAs<T, A> with fields t: T and _marker: A, its constructor, its     *)
(* Deref/DerefMut views and the forwarded Default, Debug, Display,         *)
(* PartialEq, PartialOrd, Ord and Hash implementations.                    *)
(*                                                                         *)
(* A wrapper is modelled as the bytes of its storage at an address.  The   *)
(* payload is encoded into the bytes of field t by new and decoded from    *)
(* them by deref; the bytes of the storage that field t does not cover     *)
(* keep whatever the fresh allocation held.  The target is little-endian   *)
(* with alignment_of(uN) = size_of(uN) (u64 is 8-byte aligned).            *)
(***************************************************************************)
EXTENDS Integers, Naturals, Sequences, FiniteSets, TLC

VARIABLES
    w,        \* the wrapper under test, or NoObj
    other,    \* a second wrapper (a copy, or the right-hand side of a comparison), or NoObj
    given,    \* per wrapper, the payload value it was built from
    last,     \* per written position of w's payload, the value last written there
    res,      \* the last operation and what it returned
    lay       \* the last layout computed and where an instance of it was placed

vars == <<w, other, given, last, res, lay>>

(***************************************************************************)
(* Bounds of the model.                                                    *)
(***************************************************************************)
MaxByte == 1          \* bytes range over 0..MaxByte
BufLen == 2           \* length of the byte-buffer payload [u8; BufLen]
MaxAddr == 8          \* addresses range over 0..MaxAddr
MaxCap == 4           \* capacity left in the sink behind a Formatter

Bytes == 0..MaxByte

NoObj == [T |-> "none"]
NoVal == <<"none">>
NoRes == [op |-> "none"]

Max(a, b) == IF a >= b THEN a ELSE b

(***************************************************************************)
(* Types.  Uint(n) is the n-byte unsigned integer (u8, u16, u32, u64),     *)
(* Arr(n) is [u8; n].                                                      *)
(***************************************************************************)
Uint(n) == [kind |-> "uint", n |-> n]
Arr(n) == [kind |-> "array", n |-> n]

u8 == Uint(1)
u16 == Uint(2)
u32 == Uint(4)
u64 == Uint(8)

SizeOf(T) == T.n
AlignOf(T) == IF T.kind = "uint" THEN T.n ELSE 1

\* payload types and alignment-source types of the wrappers that are built
PayloadTypes == {u8, u16, Arr(BufLen)}
AlignTypes == {u8, u32, u64}
\* types whose layout is computed
LayoutTypes == {u8, u16, u32, u64, Arr(BufLen), Arr(4), Arr(12), Arr(64)}

(***************************************************************************)
(* Layout of the #[repr(C)] union: every field starts at offset 0, the     *)
(* alignment is the largest field alignment and the size is the smallest   *)
(* multiple of the alignment that holds every field.                       *)
(***************************************************************************)
Fields(T, A) == [t |-> T, _marker |-> A]
FieldNames == {"t", "_marker"}

RoundUp(x, a) == ((x + a - 1) \div a) * a

\* layout of a struct with _marker before t (not the code's layout)
StructFieldOffset(T, A, f) == IF f = "_marker" THEN 0 ELSE RoundUp(SizeOf(A), AlignOf(T))
FieldOffset(T, A, f) == 0

\* alignment taken from the payload alone (not the code's layout)
PayloadAlignOnly(T, A) == AlignOf(T)
AlignOfUnion(T, A) ==
    LET als == {AlignOf(Fields(T, A)[f]) : f \in FieldNames}
    IN CHOOSE a \in als : \A b \in als : b <= a

FieldEnd(T, A, f) == FieldOffset(T, A, f) + SizeOf(Fields(T, A)[f])

\* size of a struct holding both fields one after the other (not the code's layout)
StructSize(T, A) == RoundUp(RoundUp(SizeOf(T), AlignOf(A)) + SizeOf(A), AlignOfUnion(T, A))
SizeOfUnion(T, A) ==
    LET al == AlignOfUnion(T, A)
        top == SizeOf(T) + SizeOf(A) + al
        fits(n) == n % al = 0 /\ \A f \in FieldNames : FieldEnd(T, A, f) <= n
    IN CHOOSE n \in 0..top : fits(n) /\ \A m \in 0..top : fits(m) => n <= m

\* addresses at which the compiler or allocator may place an AlignAs<T, A>
Addresses(T, A) ==
    {a \in 0..MaxAddr : a % AlignOfUnion(T, A) = 0 /\ a + SizeOfUnion(T, A) <= MaxAddr + 8}

(***************************************************************************)
(* Payload values and their memory representation.                        *)
(***************************************************************************)
RECURSIVE DecodeLE(_)
DecodeLE(bs) == IF bs = <<>> THEN 0 ELSE Head(bs) + 256 * DecodeLE(Tail(bs))

RECURSIVE EncodeLE(_, _)
EncodeLE(v, n) == IF n = 0 THEN <<>> ELSE <<v % 256>> \o EncodeLE(v \div 256, n - 1)

ToBytes(T, v) == IF T.kind = "uint" THEN EncodeLE(v, T.n) ELSE v
FromBytes(T, bs) == IF T.kind = "uint" THEN DecodeLE(bs) ELSE bs

ByteSeqs(n) == [1..n -> Bytes]
Values(T) == {FromBytes(T, bs) : bs \in ByteSeqs(SizeOf(T))}

\* T::default() of the payload types: 0 and [0; n]
TDefault(T) == IF T.kind = "uint" THEN 0 ELSE [i \in 1..SizeOf(T) |-> 0]

(***************************************************************************)
(* The wrapper: its storage bytes (mem) at an address, and the field that  *)
(* was initialised when it was built.                                      *)
(***************************************************************************)
Min(a, b) == IF a <= b THEN a ELSE b

\* the bytes of a fresh allocation before anything is stored in it
Fresh(T, A, junk) == [i \in 1..SizeOfUnion(T, A) |-> junk]

\* store the bytes bs at byte offset off of the storage mem
StoreBytes(mem, off, bs) ==
    [i \in 1..Len(mem) |-> IF i > off /\ i <= off + Len(bs) THEN bs[i - off] ELSE mem[i]]

\* AlignAs { _marker: .. }: building the wrapper through the other field (not the code)
new_marker(T, A, t, addr, junk) ==
    [T |-> T, A |-> A, addr |-> addr, mem |-> Fresh(T, A, junk), active |-> "_marker"]
\* pub fn new(t: T) -> Self { AlignAs { t } }
new(T, A, t, addr, junk) ==
    [T |-> T, A |-> A, addr |-> addr,
     mem |-> StoreBytes(Fresh(T, A, junk), FieldOffset(T, A, "t"), ToBytes(T, t)),
     active |-> "t"]

\* a default built from all-ones instead of T::default() (not the code)
default_ones(T, A, addr, junk) == new(T, A, FromBytes(T, [i \in 1..SizeOf(T) |-> 1]), addr, junk)
\* fn default() -> Self { Self::new(T::default()) }
default(T, A, addr, junk) == new(T, A, TDefault(T), addr, junk)

\* a reference to a field of the wrapper x: the field, its address, its length
FieldRef(x, f) ==
    [field |-> f, ptr |-> x.addr + FieldOffset(x.T, x.A, f), len |-> SizeOf(Fields(x.T, x.A)[f])]

\* a view of the other field (not the code)
deref_marker(x) == FieldRef(x, "_marker")
\* fn deref(&self) -> &T { unsafe { &self.t } }
deref(x) == FieldRef(x, "t")

\* fn deref_mut(&mut self) -> &mut T { unsafe { &mut self.t } }
deref_mut(x) == FieldRef(x, "t")

\* the bytes of x that the reference r points to
RefBytes(x, r) == SubSeq(x.mem, r.ptr - x.addr + 1, Min(r.ptr - x.addr + r.len, Len(x.mem)))

\* reading the T behind a reference into x
Load(x, r) == FromBytes(x.T, RefBytes(x, r))

\* a write that also clears the rest of the buffer (not the code)
StoreAt_clear(x, r, i, bs) ==
    [x EXCEPT !.mem = StoreBytes(StoreBytes(x.mem, r.ptr - x.addr, [k \in 1..r.len |-> 0]),
                                 r.ptr - x.addr + i, bs)]
\* writing the bytes bs at index i (from 0) of the buffer behind the reference r
StoreAt(x, r, i, bs) == [x EXCEPT !.mem = StoreBytes(x.mem, r.ptr - x.addr + i, bs)]

\* #[derive(Copy, Clone)]: a bitwise copy of the whole storage at another address
copy(x, addr) == [x EXCEPT !.addr = addr]

(***************************************************************************)
(* The payload's own operations: T's PartialEq, Ord, PartialOrd, Hash,     *)
(* Debug and Display, for the integer and byte-array payloads.             *)
(***************************************************************************)
RECURSIVE LexCmp(_, _)
LexCmp(a, b) ==
    IF a = <<>> /\ b = <<>> THEN "Equal"
    ELSE IF a = <<>> THEN "Less"
    ELSE IF b = <<>> THEN "Greater"
    ELSE IF Head(a) < Head(b) THEN "Less"
    ELSE IF Head(a) > Head(b) THEN "Greater"
    ELSE LexCmp(Tail(a), Tail(b))

TEq(T, x, y) == x = y
TCmp(T, x, y) ==
    IF T.kind = "uint"
    THEN (IF x < y THEN "Less" ELSE IF x > y THEN "Greater" ELSE "Equal")
    ELSE LexCmp(x, y)
TPartialCmp(T, x, y) == [some |-> TRUE, ord |-> TCmp(T, x, y)]

\* what T feeds to the Hasher: write_uN(v) for an integer; the length, then the bytes, for an array
THash(T, x) == IF T.kind = "uint" THEN <<T.n, x>> ELSE <<Len(x)>> \o x

Digit(d) == <<"0", "1", "2", "3", "4", "5", "6", "7", "8", "9">>[d + 1]
RECURSIVE Decimal(_)
Decimal(v) == IF v < 10 THEN <<Digit(v)>> ELSE Decimal(v \div 10) \o <<Digit(v % 10)>>

RECURSIVE DebugList(_)
DebugList(xs) ==
    IF xs = <<>> THEN <<>>
    ELSE IF Len(xs) = 1 THEN Decimal(Head(xs))
    ELSE Decimal(Head(xs)) \o <<",", " ">> \o DebugList(Tail(xs))

\* the text of {:?} and of {}; arrays have no Display
TDebugText(T, x) == IF T.kind = "uint" THEN Decimal(x) ELSE <<"[">> \o DebugList(x) \o <<"]">>
TDisplayText(T, x) == Decimal(x)
HasDisplay(T) == T.kind = "uint"

\* writing text to a Formatter whose sink has room for cap more characters
WriteStr(cap, text) == [out |-> SubSeq(text, 1, Min(cap, Len(text))), ok |-> Len(text) <= cap]
TDebug(T, x, cap) == WriteStr(cap, TDebugText(T, x))
TDisplay(T, x, cap) == WriteStr(cap, TDisplayText(T, x))

(***************************************************************************)
(* The forwarded implementations of the wrapper.                           *)
(***************************************************************************)
\* comparing the whole storage of the two wrappers (not the code)
eq_storage(a, b) == a.mem = b.mem
\* fn eq(&self, rhs: &Self) -> bool { self.deref().eq(rhs) }
eq(a, b) == TEq(a.T, Load(a, deref(a)), Load(b, deref(b)))

\* fn partial_cmp(&self, rhs: &Self) -> Option<Ordering> { self.deref().partial_cmp(rhs) }
partial_cmp(a, b) == TPartialCmp(a.T, Load(a, deref(a)), Load(b, deref(b)))

\* fn cmp(&self, rhs: &Self) -> Ordering { self.deref().cmp(rhs) }
cmp(a, b) == TCmp(a.T, Load(a, deref(a)), Load(b, deref(b)))

\* hashing the whole storage of the wrapper (not the code)
hash_storage(a) == <<Len(a.mem)>> \o a.mem
\* fn hash<H: Hasher>(&self, h: &mut H) { self.deref().hash(h) }
hash(a) == THash(a.T, Load(a, deref(a)))

\* a Debug that names the wrapper around the payload's text (not the code)
Debug_fmt_named(a, cap) ==
    WriteStr(cap, <<"A", "l", "i", "g", "n", "A", "s", "(">> \o TDebugText(a.T, Load(a, deref(a))) \o <<")">>)
\* impl Debug: fn fmt(&self, f: &mut Formatter) -> Result { self.deref().fmt(f) }
Debug_fmt(a, cap) == TDebug(a.T, Load(a, deref(a)), cap)

\* impl Display: fn fmt(&self, f: &mut Formatter) -> Result { self.deref().fmt(f) }
Display_fmt(a, cap) == TDisplay(a.T, Load(a, deref(a)), cap)

(***************************************************************************)
(* State machine of one wrapper, followed from its construction: views,    *)
(* writes through the mutable view, copies.                                *)
(***************************************************************************)
NoLay == [T |-> "none"]
NoGiven == [w |-> NoVal, other |-> NoVal]
NoLast == <<>>

Init ==
    /\ w = NoObj
    /\ other = NoObj
    /\ given = NoGiven
    /\ last = NoLast
    /\ res = NoRes
    /\ lay = NoLay

\* positions of a payload: the elements of an array, the one value of an integer
Positions(T) == IF T.kind = "array" THEN 1..SizeOf(T) ELSE {1}

\* let x: AlignAs<T, A> = AlignAs::new(v)
New(T, A, v, addr, junk) ==
    /\ w = NoObj
    /\ w' = new(T, A, v, addr, junk)
    /\ given' = [given EXCEPT !.w = v]
    /\ last' = NoLast
    /\ res' = [op |-> "new", field |-> w'.active]
    /\ UNCHANGED <<other, lay>>

\* let x: AlignAs<T, A> = Default::default()
Default(T, A, addr, junk) ==
    /\ w = NoObj
    /\ w' = default(T, A, addr, junk)
    /\ given' = [given EXCEPT !.w = Load(w', deref(w'))]
    /\ last' = NoLast
    /\ res' = [op |-> "default", field |-> w'.active]
    /\ UNCHANGED <<other, lay>>

\* &*x, and the value read through it
Deref ==
    /\ w # NoObj
    /\ LET r == deref(w)
       IN res' = [op |-> "deref", field |-> r.field, ptr |-> r.ptr, val |-> Load(w, r)]
    /\ UNCHANGED <<w, other, given, last, lay>>

\* x[i..i + k].copy_from_slice(data) on a byte-buffer payload; the range is inside the buffer
Write(i, data) ==
    /\ w # NoObj
    /\ w.T.kind = "array"
    /\ i + Len(data) <= SizeOf(w.T)
    /\ LET r == deref_mut(w)
       IN /\ w' = StoreAt(w, r, i, data)
          /\ res' = [op |-> "write", field |-> r.field, ptr |-> r.ptr]
    /\ last' = [p \in (DOMAIN last) \cup ((i + 1)..(i + Len(data))) |->
                  IF p > i /\ p <= i + Len(data) THEN data[p - i] ELSE last[p]]
    /\ UNCHANGED <<other, given, lay>>

\* *x = v on an integer payload (on a buffer it is the write of the whole range)
Assign(v) ==
    /\ w # NoObj
    /\ w.T.kind = "uint"
    /\ LET r == deref_mut(w)
       IN /\ w' = StoreAt(w, r, 0, ToBytes(w.T, v))
          /\ res' = [op |-> "assign", field |-> r.field, ptr |-> r.ptr]
    /\ last' = [p \in Positions(w.T) |-> v]
    /\ UNCHANGED <<other, given, lay>>

\* let y = x; the copy is the wrapper followed from here on
Copy(addr) ==
    /\ w # NoObj
    /\ addr # w.addr
    /\ w' = copy(w, addr)
    /\ res' = [op |-> "copy", field |-> "none"]
    /\ UNCHANGED <<other, given, last, lay>>

\* the data of a write into a proper sub-range of the buffer that starts at index i
SubRangeData(i) == UNION {ByteSeqs(k) : k \in 1..Min(BufLen - i, BufLen - 1)}

Next ==
    \/ \E T \in PayloadTypes, A \in AlignTypes, junk \in Bytes :
          \E v \in Values(T), addr \in Addresses(T, A) : New(T, A, v, addr, junk)
    \/ \E T \in PayloadTypes, A \in AlignTypes, junk \in Bytes :
          \E addr \in Addresses(T, A) : Default(T, A, addr, junk)
    \/ Deref
    \/ \E i \in 0..(BufLen - 1) : \E data \in SubRangeData(i) : Write(i, data)
    \/ \E v \in (IF w # NoObj /\ w.T.kind = "uint" THEN Values(w.T) ELSE {}) : Assign(v)
    \/ \E addr \in (IF w = NoObj THEN {} ELSE Addresses(w.T, w.A)) : Copy(addr)

Spec == Init /\ [][Next]_vars

\* the value the payload of w should hold: what was last written, else what it was built from
Expected ==
    IF w.T.kind = "array"
    THEN [p \in 1..SizeOf(w.T) |-> IF p \in DOMAIN last THEN last[p] ELSE given.w[p]]
    ELSE IF 1 \in DOMAIN last THEN last[1] ELSE given.w

(***************************************************************************)
(* State machine of two wrappers over one payload type: the forwarded      *)
(* comparisons, hashing and formatting.                                    *)
(***************************************************************************)
Slots == {"w", "other"}
Obj(s) == IF s = "w" THEN w ELSE other
Range(x) == x.addr..(x.addr + Len(x.mem) - 1)

\* capacities of the sink behind the Formatter: small ones, and one that fits every text
Caps == (0..MaxCap) \cup {8 * BufLen}

\* let a = AlignAs::<T, A>::new(v)
NewW(T, A, v, addr, junk) ==
    /\ w = NoObj
    /\ w' = new(T, A, v, addr, junk)
    /\ given' = [given EXCEPT !.w = v]
    /\ res' = [op |-> "new", field |-> w'.active]
    /\ UNCHANGED <<other, last, lay>>

\* let b = AlignAs::<T, A2>::new(v), over the payload type of a, elsewhere in memory
NewOther(A, v, addr, junk) ==
    /\ w # NoObj
    /\ other = NoObj
    /\ other' = new(w.T, A, v, addr, junk)
    /\ Range(other') \cap Range(w) = {}
    /\ given' = [given EXCEPT !.other = v]
    /\ res' = [op |-> "new", field |-> other'.active]
    /\ UNCHANGED <<w, last, lay>>

\* let b = a
CopyOther(addr) ==
    /\ w # NoObj
    /\ other = NoObj
    /\ other' = copy(w, addr)
    /\ Range(other') \cap Range(w) = {}
    /\ given' = [given EXCEPT !.other = given.w]
    /\ res' = [op |-> "copy", field |-> "none"]
    /\ UNCHANGED <<w, last, lay>>

\* the operands of eq, partial_cmp and cmp have one type, Self
SameSelf == w # NoObj /\ other # NoObj /\ w.T = other.T /\ w.A = other.A

\* a == b
Eq ==
    /\ SameSelf
    /\ res' = [op |-> "eq", field |-> deref(w).field, val |-> eq(w, other)]
    /\ UNCHANGED <<w, other, given, last, lay>>

\* a.partial_cmp(&b)
PartialCmp ==
    /\ SameSelf
    /\ res' = [op |-> "partial_cmp", field |-> deref(w).field, val |-> partial_cmp(w, other)]
    /\ UNCHANGED <<w, other, given, last, lay>>

\* a.cmp(&b)
Cmp ==
    /\ SameSelf
    /\ res' = [op |-> "cmp", field |-> deref(w).field, val |-> cmp(w, other)]
    /\ UNCHANGED <<w, other, given, last, lay>>

\* x.hash(&mut h), for either wrapper
Hash(s) ==
    /\ Obj(s) # NoObj
    /\ res' = [op |-> "hash", field |-> deref(Obj(s)).field, slot |-> s, val |-> hash(Obj(s))]
    /\ UNCHANGED <<w, other, given, last, lay>>

\* write!(f, "{:?}", a)
DebugFmt(cap) ==
    /\ w # NoObj
    /\ res' = [op |-> "debug", field |-> deref(w).field, cap |-> cap, val |-> Debug_fmt(w, cap)]
    /\ UNCHANGED <<w, other, given, last, lay>>

\* write!(f, "{}", a), for a payload that has Display
DisplayFmt(cap) ==
    /\ w # NoObj
    /\ HasDisplay(w.T)
    /\ res' = [op |-> "display", field |-> deref(w).field, cap |-> cap, val |-> Display_fmt(w, cap)]
    /\ UNCHANGED <<w, other, given, last, lay>>

\* both wrappers go out of scope
DropBoth ==
    /\ other # NoObj
    /\ w' = NoObj
    /\ other' = NoObj
    /\ given' = NoGiven
    /\ res' = NoRes
    /\ UNCHANGED <<last, lay>>

\* the two wrappers are laid out one after the other from address 0
After(x, T, A) == RoundUp(x.addr + Len(x.mem), AlignOfUnion(T, A))

NextCmp ==
    \/ \E T \in PayloadTypes, A \in AlignTypes, junk \in Bytes :
          \E v \in Values(T) : NewW(T, A, v, 0, junk)
    \/ \E A \in AlignTypes, junk \in Bytes :
          \E v \in (IF w = NoObj THEN {} ELSE Values(w.T)) :
             NewOther(A, v, After(w, w.T, A), junk)
    \/ (w # NoObj /\ CopyOther(After(w, w.T, w.A)))
    \/ Eq
    \/ PartialCmp
    \/ Cmp
    \/ \E s \in Slots : Hash(s)
    \/ DropBoth

SpecCmp == Init /\ [][NextCmp]_vars

(***************************************************************************)
(* State machine of one wrapper that is formatted.                         *)
(***************************************************************************)
NextFmt ==
    \/ \E T \in PayloadTypes, A \in AlignTypes, junk \in Bytes :
          \E v \in Values(T), addr \in Addresses(T, A) : NewW(T, A, v, addr, junk)
    \/ \E cap \in Caps : DebugFmt(cap)
    \/ \E cap \in Caps : DisplayFmt(cap)

SpecFmt == Init /\ [][NextFmt]_vars

(***************************************************************************)
(* State machine of the layout: size_of and align_of of AlignAs<T, A> for  *)
(* pairs of types, and the placement of an instance.                       *)
(***************************************************************************)
\* mem::size_of::<AlignAs<T, A>>(), mem::align_of::<AlignAs<T, A>>()
LayoutOf(T, A) ==
    /\ lay' = [T |-> T, A |-> A, size |-> SizeOfUnion(T, A), align |-> AlignOfUnion(T, A),
               offset |-> FieldOffset(T, A, "t"), addr |-> -1]
    /\ UNCHANGED <<w, other, given, last, res>>

\* an instance of the type is placed at an address the alignment allows
Place(addr) ==
    /\ lay # NoLay
    /\ lay.addr = -1
    /\ addr % lay.align = 0
    /\ lay' = [lay EXCEPT !.addr = addr]
    /\ UNCHANGED <<w, other, given, last, res>>

NextLayout ==
    \/ \E T \in LayoutTypes, A \in LayoutTypes : LayoutOf(T, A)
    \/ \E addr \in 0..MaxAddr : Place(addr)

SpecLayout == Init /\ [][NextLayout]_vars

(***************************************************************************)
(* State machine of every operation of the wrapper, on wrappers laid out   *)
(* from address 0.  To bound the state space a wrapper that has been       *)
(* written through is not also compared, hashed or formatted.              *)
(***************************************************************************)
NextOps ==
    \/ (last = NoLast /\ NextCmp)
    \/ \E T \in PayloadTypes, A \in AlignTypes, junk \in Bytes : Default(T, A, 0, junk)
    \/ Deref
    \/ \E i \in 0..(BufLen - 1) : \E data \in SubRangeData(i) :
          (other = NoObj /\ Write(i, data))
    \/ \E v \in (IF w # NoObj /\ w.T.kind = "uint" THEN Values(w.T) ELSE {}) :
          (other = NoObj /\ Assign(v))
    \/ \E cap \in Caps : (other = NoObj /\ last = NoLast /\ DebugFmt(cap))
    \/ \E cap \in Caps : (other = NoObj /\ last = NoLast /\ DisplayFmt(cap))

SpecOps == Init /\ [][NextOps]_vars

(***************************************************************************)
(* Properties.                                                             *)
(***************************************************************************)

\* C1: the alignment of AlignAs<T, A> is at least the larger of the alignments of
\* T and A, and every wrapper, built by new or default or copied, sits at an
\* address that is a multiple of both alignments.
C1_AlignmentHonoured ==
    /\ \A T \in LayoutTypes, A \in LayoutTypes :
          AlignOfUnion(T, A) >= Max(AlignOf(T), AlignOf(A))
    /\ w # NoObj =>
          /\ AlignOfUnion(w.T, w.A) >= Max(AlignOf(w.T), AlignOf(w.A))
          /\ w.addr % AlignOf(w.T) = 0
          /\ w.addr % AlignOf(w.A) = 0

C1_Witness ==
    /\ w # NoObj
    /\ w.T = u16
    /\ w.A = u64
    /\ w.addr = 8
    /\ res.op = "copy"

\* C2: reading through the view of AlignAs::new(v) yields exactly v, for every
\* payload value and every alignment-source type.
C2_NewRoundTrip ==
    /\ res.op = "new" => Load(w, deref(w)) = given.w
    /\ (res.op = "deref" /\ last = NoLast) => res.val = given.w

C2_Witness ==
    /\ res.op = "deref"
    /\ last = NoLast
    /\ w.T = u16
    /\ w.A = u64
    /\ given.w = 256 * MaxByte + 1
    /\ res.val = 256 * MaxByte + 1

\* C3: after any sequence of writes through the mutable view into sub-ranges of a
\* byte-buffer payload, every written position reads back the value last written
\* there and every position never written still holds the value the wrapper was
\* built from.
C3_WriteRoundTripFrame ==
    (w # NoObj /\ w.T.kind = "array") =>
        /\ \A p \in 1..SizeOf(w.T) :
              Load(w, deref(w))[p] = (IF p \in DOMAIN last THEN last[p] ELSE given.w[p])
        /\ res.op = "deref" => res.val = Expected

C3_Witness ==
    /\ w # NoObj
    /\ w.T = Arr(BufLen)
    /\ w.A = u64
    /\ given.w = [p \in 1..BufLen |-> 0]
    /\ DOMAIN last = {BufLen}
    /\ last[BufLen] = MaxByte
    /\ res.op = "deref"
    /\ res.val[BufLen] = MaxByte
    /\ res.val[1] = 0

C5_DefaultIsNewOfDefault ==
    res.op = "default" =>
        /\ Load(w, deref(w)) = TDefault(w.T)
        /\ \E junk \in Bytes : w = new(w.T, w.A, TDefault(w.T), w.addr, junk)

C5_Witness ==
    /\ res.op = "default"
    /\ w.T = Arr(BufLen)
    /\ w.A = u64
    /\ w.mem[SizeOfUnion(w.T, w.A)] = MaxByte

\* C6: the payload is at offset 0, so the address of the buffer obtained through
\* either view is the address of the wrapper, and with a u64 alignment source it
\* is divisible by 8, also after writes and for copies.
C6_PayloadAddressAligned ==
    w # NoObj =>
        /\ deref(w).ptr = w.addr
        /\ deref_mut(w).ptr = w.addr
        /\ (w.T.kind = "array" /\ w.A = u64) => deref(w).ptr % 8 = 0
        /\ res.op \in {"deref", "write", "assign"} =>
              /\ res.ptr = w.addr
              /\ w.A = u64 => res.ptr % 8 = 0

C6_Witness ==
    /\ w # NoObj
    /\ w.T = Arr(BufLen)
    /\ w.A = u64
    /\ w.addr = 8
    /\ res.op = "write"
    /\ res.ptr = 8
    /\ DOMAIN last = 1..BufLen

\* C7: eq, partial_cmp and cmp of two wrappers of one type return exactly what the
\* payload's eq, partial_cmp and cmp return on the two payload values, and eq
\* holds exactly when cmp gives Equal.
C7_ComparisonForwarded ==
    /\ res.op = "eq" => res.val = TEq(w.T, given.w, given.other)
    /\ res.op = "partial_cmp" => res.val = TPartialCmp(w.T, given.w, given.other)
    /\ res.op = "cmp" => res.val = TCmp(w.T, given.w, given.other)
    /\ SameSelf => (eq(w, other) <=> cmp(w, other) = "Equal")

C7_Witness ==
    /\ SameSelf
    /\ w.T = u16
    /\ w.A = u64
    /\ given.w = 256
    /\ given.other = 1
    /\ res.op = "cmp"
    /\ res.val = "Greater"

\* C8: the Debug and Display output of a wrapper, and the Ok or Err of the
\* formatter, are those of its payload value.
C8_FormattingForwarded ==
    /\ res.op = "debug" => res.val = TDebug(w.T, given.w, res.cap)
    /\ res.op = "display" => res.val = TDisplay(w.T, given.w, res.cap)

C8_Witness ==
    /\ res.op = "debug"
    /\ w.T = Arr(BufLen)
    /\ w.A = u64
    /\ res.val.ok
    /\ Len(res.val.out) = 3 * BufLen
    /\ res.val.out[2] = Digit(MaxByte)

\* C9: in every state reached by the wrapper's operations the initialised field
\* of a wrapper is t, and no operation goes through the field _marker.
C9_MarkerNeverTouched ==
    /\ w # NoObj => w.active = "t"
    /\ other # NoObj => other.active = "t"
    /\ res.op # "none" => res.field # "_marker"

C9_Witness ==
    /\ w # NoObj
    /\ other # NoObj
    /\ w.A = u64
    /\ res.op = "eq"
    /\ res.field = "t"

\* C10: size_of(AlignAs<T, A>) is the larger of the two sizes rounded up to the
\* larger of the two alignments; it is at least size_of(T), a multiple of the
\* alignment, larger than the payload when A is larger, 8 for AlignAs<[u8; 4], u64>
\* and exactly 64 for AlignAs<[u8; 64], u64>.
C10_SizeOfStorage ==
    lay # NoLay =>
        /\ lay.size = RoundUp(Max(SizeOf(lay.T), SizeOf(lay.A)), Max(AlignOf(lay.T), AlignOf(lay.A)))
        /\ lay.size >= SizeOf(lay.T)
        /\ lay.size % lay.align = 0
        /\ SizeOf(lay.A) > SizeOf(lay.T) => lay.size > SizeOf(lay.T)
        /\ (lay.T = Arr(4) /\ lay.A = u64) => lay.size = 8
        /\ (lay.T = Arr(64) /\ lay.A = u64) => (lay.size = 64 /\ 8 * SizeOf(u64) <= lay.size)

C10_Witness ==
    /\ lay # NoLay
    /\ lay.T = Arr(64)
    /\ lay.A = u64
    /\ lay.size = 64
    /\ lay.addr = 8

====
